---- MODULE Spec2Model ----
(***************************************************************************)
(* Map Quiz Game (src/src/MapQuizGame.jsx): the quiz state machine of the  *)
(* MapQuizGame component, with the pure helpers it relies on (norm,        *)
(* matchesAnswer, isRenderableFeature, the dataset registry).              *)
(*                                                                         *)
(* React semantics assumed throughout (production build, no StrictMode,    *)
(* see src/src/main.jsx): the state updates of one handler are batched,    *)
(* functional updaters are applied once, and the effects whose             *)
(* dependencies changed run after the render and before the next event.   *)
(* So one action of the model is one event (a click, a submit, a timer     *)
(* tick, a resolved fetch) together with the renders and effects it        *)
(* causes.                                                                 *)
(*                                                                         *)
(* Strings are TLA+ strings.  The source's non-ASCII characters are        *)
(* written with ASCII stand-ins: "1" is U+00E9 (e acute), "2" is U+00C9    *)
(* (E acute) and "^" is U+0301 (combining acute accent).  JavaScript's     *)
(* null is the string null below, which no name of the model equals.       *)
(***************************************************************************)
EXTENDS Integers, Sequences, FiniteSets, TLC

null == "<null>"

(******************************** Utils ************************************)

\* JavaScript truthiness of a string-or-null value
Truthy(v) == v # null /\ v # ""

CharAt(s, i) == SubSeq(s, i, i)
Rest(s) == SubSeq(s, 2, Len(s))

UPPER == "ABCDEFGHIJKLMNOPQRSTUVWXYZ"
LOWER == "abcdefghijklmnopqrstuvwxyz"

\* String.prototype.normalize("NFD") on one character
DecomposeChar(c) ==
    IF c = "1" THEN "e^" ELSE IF c = "2" THEN "E^" ELSE c

RECURSIVE NFD(_)
NFD(s) == IF s = "" THEN "" ELSE DecomposeChar(CharAt(s, 1)) \o NFD(Rest(s))

\* \p{Diacritic}
IsDiacritic(c) == c = "^"

RECURSIVE StripDiacritics(_)
StripDiacritics(s) ==
    IF s = "" THEN ""
    ELSE (IF IsDiacritic(CharAt(s, 1)) THEN "" ELSE CharAt(s, 1))
         \o StripDiacritics(Rest(s))

\* \s
IsSpace(c) == c \in {" ", "\t", "\n"}

\* .replace(/\s+/g, " "): every maximal run of whitespace becomes one space
RECURSIVE CollapseSpaces(_)
CollapseSpaces(s) ==
    IF s = "" THEN ""
    ELSE IF IsSpace(CharAt(s, 1))
         THEN IF Len(s) > 1 /\ IsSpace(CharAt(s, 2))
              THEN CollapseSpaces(Rest(s))
              ELSE " " \o CollapseSpaces(Rest(s))
         ELSE CharAt(s, 1) \o CollapseSpaces(Rest(s))

RECURSIVE TrimStart(_)
TrimStart(s) ==
    IF s # "" /\ IsSpace(CharAt(s, 1)) THEN TrimStart(Rest(s)) ELSE s

RECURSIVE TrimEnd(_)
TrimEnd(s) ==
    IF s # "" /\ IsSpace(CharAt(s, Len(s)))
    THEN TrimEnd(SubSeq(s, 1, Len(s) - 1)) ELSE s

\* .trim()
Trim(s) == TrimEnd(TrimStart(s))

LowerChar(c) ==
    IF \E i \in 1..26 : CharAt(UPPER, i) = c
    THEN CharAt(LOWER, CHOOSE i \in 1..26 : CharAt(UPPER, i) = c)
    ELSE c

\* .toLowerCase()
RECURSIVE ToLowerCase(_)
ToLowerCase(s) ==
    IF s = "" THEN "" ELSE LowerChar(CharAt(s, 1)) \o ToLowerCase(Rest(s))

\* normalize without its .trim()
normalizeUntrimmed(s) ==
    ToLowerCase(CollapseSpaces(StripDiacritics(NFD(IF Truthy(s) THEN s ELSE ""))))

\* (s || "").normalize("NFD").replace(/\p{Diacritic}/gu, "").replace(/\s+/g, " ").trim().toLowerCase()
normalize(s) ==
    ToLowerCase(Trim(CollapseSpaces(StripDiacritics(NFD(IF Truthy(s) THEN s ELSE "")))))

\* The strings the quiz normalizes over and over: their normal forms are
\* computed once
Familiar ==
    {null, "", "Chad", "Peru", "Texas", "Alaska", "Utah", "Ohio", "Ontario",
     "Quebec", "tx", "qc", " QUE^BEC", "on", "pq", "quebec", "ut",
     "Prince Edward Island", "New York", "Cote d'Ivoire", "Constructor",
     "PEI", "NY", "Ivory Coast", "pei", "ny", "ivory coast", "cote divoire",
     "  ", "Qu1bec", "QU2BEC", "Que^bec", "QUEBEC", " Quebec\t", "new york",
     "new   york", "NEW \n YORK ", "^"}
NormCache == [s \in Familiar |-> normalize(s)]

\* norm(s)
norm(s) == IF s \in Familiar THEN NormCache[s] ELSE normalize(s)

(************************** JavaScript values ******************************)
\* The values a geometry payload holds, tagged by their JavaScript type.
JSNull == [t |-> "null"]
Num(n) == [t |-> "num", n |-> n]
NotFinite == [t |-> "nan"]
Arr(xs) == [t |-> "arr", v |-> xs]

safeList(v) == IF v.t = "arr" THEN v.v ELSE <<>>
isNum(x) == x.t = "num"
IsArray(x) == x.t = "arr"
Falsy(x) == x.t \in {"null", "nan"} \/ (x.t = "num" /\ x.n = 0)

\* hasFirstNumber: arr[0][0][0] exists and is a finite number
hasFirstNumber(arr) ==
    /\ IsArray(arr) /\ Len(arr.v) > 0
    /\ IsArray(arr.v[1]) /\ Len(arr.v[1].v) > 0
    /\ IsArray(arr.v[1].v[1]) /\ Len(arr.v[1].v[1].v) > 0
    /\ isNum(arr.v[1].v[1].v[1])

\* isRenderableFeature probing the coordinates of every geometry type as it
\* does a Polygon's
isRenderableFeatureOfAnyType(f) ==
    IF Falsy(f) \/ Falsy(f.geometry) THEN FALSE
    ELSE LET type == f.geometry.type
             coordinates == f.geometry.coordinates
         IN  IF Falsy(coordinates) THEN FALSE
             ELSE IF type = "MultiPolygon"
                  THEN /\ IsArray(coordinates) /\ Len(coordinates.v) > 0
                       /\ hasFirstNumber(coordinates.v[1])
             ELSE hasFirstNumber(coordinates)

\* A feature is JSNull or [t |-> "obj", geometry |-> g, properties |-> p];
\* a geometry is JSNull or [t |-> "obj", type |-> string, coordinates |-> value].
isRenderableFeature(f) ==
    IF Falsy(f) \/ Falsy(f.geometry) THEN FALSE
    ELSE LET type == f.geometry.type
             coordinates == f.geometry.coordinates
         IN  IF Falsy(coordinates) THEN FALSE
             ELSE IF type = "Polygon" THEN hasFirstNumber(coordinates)
             ELSE IF type = "MultiPolygon"
                  THEN /\ IsArray(coordinates) /\ Len(coordinates.v) > 0
                       /\ hasFirstNumber(coordinates.v[1])
             ELSE FALSE

(******************************* Datasets **********************************)
\* The registry's keys that the model plays with: "world" is the dataset
\* the component starts with, "usa48" is the one with an inclusion filter,
\* "canada" a plain subnational one and "mexico" one whose source answers
\* with features of which none is usable.  The other keys of DATASETS
\* differ from these only in their label, projection and property spellings.
DATASET_ORDER == <<"world", "usa48", "canada", "mexico">>
Datasets == {DATASET_ORDER[i] : i \in 1..Len(DATASET_ORDER)}

\* geo?.properties?.key (undefined is null here)
Prop(geo, key) ==
    IF geo.t = "obj" /\ key \in DOMAIN geo.properties
    THEN geo.properties[key] ELSE null

\* a || b
OrElse(a, b) == IF Truthy(a) THEN a ELSE b

\* DATASETS[d].getName for world, usa48, canada and mexico
getName(d, geo) == OrElse(Prop(geo, "name"), OrElse(Prop(geo, "NAME"), ""))

USA48_EXCLUDED ==
    {"alaska", "hawaii", "puerto rico", "guam", "american samoa",
     "northern mariana islands", "united states virgin islands",
     "district of columbia"}

\* typeof conf.filter === "function"
HasFilter(d) == d = "usa48"

\* DATASETS.usa48.filter
filter(d, name) == norm(name) \notin USA48_EXCLUDED

\* DATASETS[d].exploreScope: "country", or the country of a subdivision
exploreScope(d) ==
    IF d = "world" THEN "country"
    ELSE IF d = "usa48" THEN "United States"
    ELSE IF d = "canada" THEN "Canada" ELSE "Mexico"

\* The list the GeoLayer render callback keeps of the features it is given
RECURSIVE FilterFeatures(_, _)
FilterFeatures(d, raw) ==
    IF raw = <<>> THEN <<>>
    ELSE LET g == Head(raw)
             nm == getName(d, g)
             keep == /\ isRenderableFeature(g)
                     /\ Truthy(nm)
                     /\ (HasFilter(d) => filter(d, nm))
         IN  (IF keep THEN <<g>> ELSE <<>>) \o FilterFeatures(d, Tail(raw))

\* list.map((g) => conf.getName(g))
NamesOf(d, list) == [i \in 1..Len(list) |-> getName(d, list[i])]

(**************************** Geometry payloads ****************************)
\* What the geometry sources answer: small documents with the shapes the
\* validator and the name rules tell apart.
Ring == Arr(<<Arr(<<Num(0), Num(0)>>), Arr(<<Num(1), Num(1)>>)>>)
Polygon == [t |-> "obj", type |-> "Polygon", coordinates |-> Arr(<<Ring>>)]
MultiPolygon ==
    [t |-> "obj", type |-> "MultiPolygon", coordinates |-> Arr(<<Arr(<<Ring>>)>>)]
EmptyPolygon == [t |-> "obj", type |-> "Polygon", coordinates |-> Arr(<<>>)]
PointGeometry ==
    [t |-> "obj", type |-> "Point", coordinates |-> Arr(<<Num(0), Num(0)>>)]
Feature(g, p) == [t |-> "obj", geometry |-> g, properties |-> p]

Payload(d) ==
    IF d = "world"
    THEN <<Feature(MultiPolygon, [name |-> "Chad"]),
           Feature(JSNull, [name |-> "Peru"]),
           Feature(Polygon, [id |-> "004"])>>
    ELSE IF d = "usa48"
    THEN <<Feature(MultiPolygon, [name |-> "Texas"]),
           Feature(MultiPolygon, [name |-> "Alaska"]),
           Feature(Polygon, [NAME |-> "Utah"]),
           Feature(EmptyPolygon, [name |-> "Ohio"])>>
    ELSE IF d = "canada"
    THEN <<Feature(Polygon, [name |-> "Ontario"]),
           Feature(MultiPolygon, [name |-> "Quebec"])>>
    ELSE <<Feature(PointGeometry, [name |-> "Sonora"]),
           Feature(Polygon, [id |-> "09"])>>

\* The list and the names the render callback computes for each dataset
\* (the payloads are fixed, so they are computed once)
Pool == [d \in Datasets |-> FilterFeatures(d, Payload(d))]
PoolNames == [d \in Datasets |-> NamesOf(d, Pool[d])]

(******************************* Matching *********************************)

NAME_ALIASES ==
    ("ontario" :> <<"on">>) @@ ("quebec" :> <<"qc", "pq", "quebec">>) @@ ("newfoundland and labrador" :> <<"newfoundland", "nl">>) @@
    ("prince edward island" :> <<"pei">>) @@ ("nova scotia" :> <<"ns">>) @@ ("new brunswick" :> <<"nb">>) @@
    ("british columbia" :> <<"bc">>) @@ ("northwest territories" :> <<"nwt">>) @@ ("nunavut" :> <<"nu">>) @@
    ("yukon" :> <<"yt">>) @@ ("alabama" :> <<"al">>) @@ ("alaska" :> <<"ak">>) @@
    ("arizona" :> <<"az">>) @@ ("arkansas" :> <<"ar">>) @@ ("california" :> <<"ca">>) @@
    ("colorado" :> <<"co">>) @@ ("connecticut" :> <<"ct">>) @@ ("delaware" :> <<"de">>) @@
    ("florida" :> <<"fl">>) @@ ("georgia" :> <<"ga">>) @@ ("hawaii" :> <<"hi">>) @@
    ("idaho" :> <<"id">>) @@ ("illinois" :> <<"il">>) @@ ("indiana" :> <<"in">>) @@
    ("iowa" :> <<"ia">>) @@ ("kansas" :> <<"ks">>) @@ ("kentucky" :> <<"ky">>) @@
    ("louisiana" :> <<"la">>) @@ ("maine" :> <<"me">>) @@ ("maryland" :> <<"md">>) @@
    ("massachusetts" :> <<"ma">>) @@ ("michigan" :> <<"mi">>) @@ ("minnesota" :> <<"mn">>) @@
    ("mississippi" :> <<"ms">>) @@ ("missouri" :> <<"mo">>) @@ ("montana" :> <<"mt">>) @@
    ("nebraska" :> <<"ne">>) @@ ("nevada" :> <<"nv">>) @@ ("new hampshire" :> <<"nh">>) @@
    ("new jersey" :> <<"nj">>) @@ ("new mexico" :> <<"nm">>) @@ ("new york" :> <<"ny">>) @@
    ("north carolina" :> <<"nc">>) @@ ("north dakota" :> <<"nd">>) @@ ("ohio" :> <<"oh">>) @@
    ("oklahoma" :> <<"ok">>) @@ ("oregon" :> <<"or">>) @@ ("pennsylvania" :> <<"pa">>) @@
    ("rhode island" :> <<"ri">>) @@ ("south carolina" :> <<"sc">>) @@ ("south dakota" :> <<"sd">>) @@
    ("tennessee" :> <<"tn">>) @@ ("texas" :> <<"tx">>) @@ ("utah" :> <<"ut">>) @@
    ("vermont" :> <<"vt">>) @@ ("virginia" :> <<"va">>) @@ ("washington" :> <<"wa">>) @@
    ("west virginia" :> <<"wv">>) @@ ("wisconsin" :> <<"wi">>) @@ ("wyoming" :> <<"wy">>) @@
    ("cote d'ivoire" :> <<"ivory coast", "cote divoire">>) @@ ("czechia" :> <<"czech republic">>) @@ ("eswatini" :> <<"swaziland">>) @@
    ("myanmar" :> <<"burma">>) @@ ("democratic republic of the congo" :> <<"drc", "dr congo", "congo-kinshasa">>) @@ ("republic of the congo" :> <<"congo-brazzaville">>) @@
    ("united states of america" :> <<"united states", "usa", "us">>) @@ ("united kingdom" :> <<"uk", "great britain", "britain">>)

\* NAME_ALIASES[c] || []
AliasesOf(c) == IF c \in DOMAIN NAME_ALIASES THEN NAME_ALIASES[c] ELSE <<>>

matchesAnswer(answer, canonical) ==
    LET a == norm(answer)
        c == norm(canonical)
        aliases == AliasesOf(c)
    IN  \/ a = c
        \/ \E i \in 1..Len(aliases) : norm(aliases[i]) = a

\* The names of normalized form that every object literal inherits from
\* Object.prototype
InheritedKeys == {"constructor", "__proto__"}

\* Whether matchesAnswer throws: for an inherited name NAME_ALIASES[c] is an
\* object that is no array, "|| []" keeps it, and aliases.some is no function
matchesAnswerThrows(answer, canonical) ==
    /\ norm(answer) # norm(canonical)
    /\ norm(canonical) \in InheritedKeys \ DOMAIN NAME_ALIASES

\* What a call of matchesAnswer ends with
matchesAnswerResult(answer, canonical) ==
    IF matchesAnswerThrows(answer, canonical) THEN "TypeError"
    ELSE IF matchesAnswer(answer, canonical) THEN "true" ELSE "false"

(******************************** Bounds ***********************************)
\* Correct answers stop at MaxScore (score is unbounded in the source).
MaxScore == 1
\* setTimeout(() => setGeoVersion(...), 0) callbacks that may be pending at once
MaxGeoBumps == 1
\* Explore fetches that may be in flight at once
MaxInflight == 2
\* The countdown lengths the model offers.  The source offers 10, 20, 30
\* and 60 seconds and starts at 20; the model scales them down to two
\* lengths and starts at the longer one.
ShortDuration == 1
LongDuration == 2
Durations == {ShortDuration, LongDuration}
\* What the user types in Type mode
TypedTexts == {"qc", " QUE^BEC"}

\* A high score kept in the store by an earlier visit
PriorBest == 2

\* useState(5), setLives(5)
StartLives == 5

Modes == {"explore", "click", "type"}
Quiz(m) == m \in {"click", "type"}

\* The user of one session resets and switches mode and dataset, and
\* besides uses one of: the countdown and its durations while clicking
\* regions in Click mode ("countdown"); the countdown and its durations in
\* every mode on the world map ("deadline"); the text input of Type mode;
\* the lookups of Explore mode, with the countdown at its first duration;
\* or, in a "tour", every dataset in Click mode.  This keeps the five from
\* multiplying each other's states; every handler runs in some session.
Sessions == {"countdown", "deadline", "typing", "explore", "tour"}
\* The sessions in which the countdown is used, and its duration changed
Timed == {"countdown", "deadline", "explore"}
Retimed == {"countdown", "deadline"}
ModesOf(sess) ==
    IF sess = "countdown" THEN {"click"}
    ELSE IF sess = "deadline" THEN Modes
    ELSE IF sess = "typing" THEN {"click", "type"}
    ELSE IF sess = "explore" THEN {"click", "explore"}
    ELSE {"click"}
DatasetsOf(sess) ==
    IF sess = "tour" THEN Datasets
    ELSE IF sess = "deadline" THEN {"world"}
    ELSE {"world", "canada"}
\* The modes in which the user of a session clicks regions
ClicksIn(sess) ==
    IF sess = "countdown" THEN {"click"}
    ELSE IF sess = "deadline" THEN {"click", "type"}
    ELSE IF sess = "typing" THEN {"type"}
    ELSE IF sess = "explore" THEN {"explore"}
    ELSE {"click"}

(********************************* State ***********************************)
VARIABLES
    dataset, mode,              \* UI state
    prompt, input, score, streak, lives, message, gameOver,   \* game state
    highScore,                  \* the high score on display
    localStorage,               \* the persisted high scores, by key
    selectedName, info,         \* Explore state
    inflight,                   \* Explore fetches not yet resolved
    namesRef, lastLenRef,       \* geography load tracking (refs)
    geoBumps,                   \* pending setGeoVersion timeouts
    mapLoaded,                  \* whether the mounted <Geographies> has its features
    timerOn, duration, timeLeft,
    intervals,                  \* how many countdown intervals are set
    session,                    \* what the user of this session does (see Sessions)
    lib,                        \* the call of a library function under examination
    lastEvent                   \* the last event, where a handler may return at once

\* What the component holds, and with it the library call
game == <<dataset, mode, prompt, input, score, streak, lives, message, gameOver,
          highScore, localStorage, selectedName, info, inflight, namesRef,
          lastLenRef, geoBumps, mapLoaded, timerOn, duration, timeLeft,
          intervals, session>>

state == <<game, lib>>

vars == <<state, lastEvent>>

\* The last event was a submission of the Type-mode form; a click on the
\* region called name in Explore mode; a press of Reset or Play Again; a
\* change of the mode or dataset select; any other event
Submission == [kind |-> "submit", name |-> null]
ExploreClicked(name) == [kind |-> "explore", name |-> name]
Reset == [kind |-> "reset", name |-> null]
Switch == [kind |-> "switch", name |-> null]
Other == [kind |-> "other", name |-> null]
submitted == lastEvent = Submission

\* Whether a countdown interval is set, and so delivers ticks
timerLive == intervals > 0

\* The component's useState values as one record
View ==
    [dataset |-> dataset, mode |-> mode, prompt |-> prompt, input |-> input,
     score |-> score, streak |-> streak, lives |-> lives, message |-> message,
     gameOver |-> gameOver, highScore |-> highScore,
     selectedName |-> selectedName, info |-> info, timerOn |-> timerOn,
     duration |-> duration, timeLeft |-> timeLeft]

hsKey(d, m) == "mqg_hs_v1_" \o d \o "_" \o m
HsKeys == {hsKey(d, m) : d \in Datasets, m \in Modes}

\* Number(localStorage.getItem(key)) || 0
Stored(ls, key) == IF key \in DOMAIN ls THEN ls[key] ELSE 0

\* What localStorage holds when the page loads: nothing, or (in a tour) a
\* high score of an earlier visit for the pair the component starts with
InitialStores(sess) ==
    {[k \in HsKeys |-> 0]}
    \cup (IF sess = "tour"
          THEN {[k \in HsKeys |->
                    IF k = hsKey("world", "click") THEN PriorBest ELSE 0]}
          ELSE {})

(******************************** Effects **********************************)
\* useEffect [dataset, mode]: show the stored high score of the pair
HighScoreEffect(old, s, ls) ==
    IF s.dataset # old.dataset \/ s.mode # old.mode
    THEN [s EXCEPT !.highScore = Stored(ls, hsKey(s.dataset, s.mode))]
    ELSE s

\* TimeLeftEffect without duration among its dependencies
TimeLeftEffectOfSwitchOnly(old, s, geoChanged) ==
    IF s.dataset # old.dataset \/ s.mode # old.mode \/ geoChanged
    THEN [s EXCEPT !.timeLeft = s.duration]
    ELSE s

\* useEffect [duration, dataset, mode, geoVersion]: setTimeLeft(duration)
TimeLeftEffect(old, s, geoChanged) ==
    IF s.duration # old.duration \/ s.dataset # old.dataset
       \/ s.mode # old.mode \/ geoChanged
    THEN [s EXCEPT !.timeLeft = s.duration]
    ELSE s

\* DatasetEffect without its setGameOver(false)
DatasetEffectKeepsGameOver(old, s) ==
    IF s.dataset # old.dataset
    THEN [s EXCEPT !.message = "", !.prompt = null, !.selectedName = null,
                   !.info = JSNull, !.lives = StartLives]
    ELSE s

\* useEffect [dataset]: reset on dataset change
DatasetEffect(old, s) ==
    IF s.dataset # old.dataset
    THEN [s EXCEPT !.message = "", !.prompt = null, !.selectedName = null,
                   !.info = JSNull, !.lives = StartLives, !.gameOver = FALSE]
    ELSE s

\* list[Math.floor(Math.random() * list.length)]
RandomOf(list) == {list[i] : i \in 1..Len(list)}

\* useEffect [geoVersion, mode, dataset]: regenerate the prompt.  The set
\* of states it may leave, one per random choice.
PromptEffect(old, s, geoChanged, names) ==
    IF s.dataset # old.dataset \/ s.mode # old.mode \/ geoChanged
    THEN IF Quiz(s.mode) /\ Len(names) > 0
         THEN {[s EXCEPT !.prompt = p, !.input = "", !.message = "",
                         !.timeLeft = s.duration] : p \in RandomOf(names)}
         ELSE IF s.mode # "explore"
         THEN {[s EXCEPT !.prompt = null]}
         ELSE {s}
    ELSE {s}

\* The effects of the render that follows a handler, in their order in the
\* component: old is the state of the previous render, s the state the
\* handler's updates give.
Effects(old, s, geoChanged, ls, names) ==
    PromptEffect(old,
        DatasetEffect(old,
            TimeLeftEffect(old, HighScoreEffect(old, s, ls), geoChanged)),
        geoChanged, names)

\* useEffect [timerOn, duration, mode, gameOver]: the guard of the effect;
\* past it the effect sets an interval and returns the cleanup that clears it
TimerRuns(s) == s.timerOn /\ ~s.gameOver /\ Quiz(s.mode)

\* TimerEffect without the cleanup that clears the interval of the last run
TimerEffectNoCleanup(old, s, n) ==
    IF s.timerOn # old.timerOn \/ s.duration # old.duration
       \/ s.mode # old.mode \/ s.gameOver # old.gameOver
    THEN n + (IF TimerRuns(s) THEN 1 ELSE 0)
    ELSE n

\* The number of intervals set after the countdown effect of a render with
\* state s that follows a render with state old, n being set before: when a
\* dependency changed, the cleanup of the last run (if that run set an
\* interval) clears it, and the effect runs again
TimerEffect(old, s, n) ==
    IF s.timerOn # old.timerOn \/ s.duration # old.duration
       \/ s.mode # old.mode \/ s.gameOver # old.gameOver
    THEN (n - (IF TimerRuns(old) THEN 1 ELSE 0)) + (IF TimerRuns(s) THEN 1 ELSE 0)
    ELSE n

\* A render of MapQuizGame commits the state s.  GeoLayer is a component
\* defined inside the render, so every render mounts a new <Geographies>,
\* which shows nothing until its fetch of the geometry resolves.
Commit(s) ==
    /\ dataset' = s.dataset /\ mode' = s.mode /\ prompt' = s.prompt
    /\ input' = s.input /\ score' = s.score /\ streak' = s.streak
    /\ lives' = s.lives /\ message' = s.message /\ gameOver' = s.gameOver
    /\ highScore' = s.highScore /\ selectedName' = s.selectedName
    /\ info' = s.info /\ timerOn' = s.timerOn /\ duration' = s.duration
    /\ timeLeft' = s.timeLeft
    /\ mapLoaded' = FALSE
    /\ UNCHANGED <<session, lib>>

\* The handler's updates give s: render with s and run the effects, whose
\* updates give r; render with r and run the effects whose dependencies the
\* first pass changed (of those only the countdown effect writes anything).
Render(s, geoChanged, ls) ==
    /\ localStorage' = ls
    /\ \E r \in Effects(View, s, geoChanged, ls, namesRef) :
         /\ Commit(r)
         /\ intervals' = TimerEffect(s, r, TimerEffect(View, s, intervals))
    /\ UNCHANGED <<namesRef, lastLenRef>>

Init ==
    /\ dataset = "world" /\ mode = "click"
    /\ prompt = null /\ input = "" /\ score = 0 /\ streak = 0
    /\ lives = StartLives /\ message = "" /\ gameOver = FALSE
    /\ session \in Sessions
    /\ localStorage \in InitialStores(session)
    /\ highScore = Stored(localStorage, hsKey("world", "click"))
    /\ selectedName = null /\ info = JSNull /\ inflight = {}
    /\ namesRef = <<>> /\ lastLenRef = 0 /\ geoBumps = 0
    /\ mapLoaded = FALSE
    /\ timerOn = FALSE /\ duration = LongDuration /\ timeLeft = LongDuration
    /\ intervals = 0
    /\ lastEvent = Other
    /\ lib = [fn |-> "none"]

(******************************* Handlers **********************************)
\* The regions on the map: the list of the render callback once the
\* geometry is loaded, nothing before
geographies == IF mapLoaded THEN Pool[dataset] ELSE <<>>

\* bumpHighScore without its comparison with the stored value
bumpHighScoreAlways(ls, key, val) == [ls EXCEPT ![key] = val]

\* bumpHighScore(val): the store after the call
bumpHighScore(ls, key, val) ==
    IF val > Stored(ls, key) THEN [ls EXCEPT ![key] = val] ELSE ls

\* setHighScore(val) inside bumpHighScore: the high score on display after it
BumpedDisplay(ls, key, val, shown) ==
    IF val > Stored(ls, key) THEN val ELSE shown

\* Math.max(0, l - 1)
LoseLife(l) == IF l - 1 > 0 THEN l - 1 ELSE 0

\* NextPromptAfterMiss excluding only the old prompt
NextPromptIgnoringClicked(all, oldPrompt, name) ==
    LET fallback == SelectSeq(all, LAMBDA n : norm(n) # norm(oldPrompt))
    IN  IF Len(fallback) > 0 THEN RandomOf(fallback) ELSE {null}

\* NextPromptAfterMiss without its fallback list
NextPromptNoFallback(all, oldPrompt, name) ==
    LET candidates ==
            SelectSeq(all, LAMBDA n : norm(n) # norm(oldPrompt) /\ norm(n) # norm(name))
    IN  IF Len(candidates) > 0 THEN RandomOf(candidates) ELSE {null}

\* The prompts a wrong click may select: not the old prompt nor the clicked
\* name when there is such a name, else not the old prompt, else none
NextPromptAfterMiss(all, oldPrompt, name) ==
    LET candidates ==
            SelectSeq(all, LAMBDA n : norm(n) # norm(oldPrompt) /\ norm(n) # norm(name))
        fallback == SelectSeq(all, LAMBDA n : norm(n) # norm(oldPrompt))
    IN  IF Len(candidates) > 0 THEN RandomOf(candidates)
        ELSE IF Len(fallback) > 0 THEN RandomOf(fallback)
        ELSE {null}

\* The prompts a correct answer may select: any of the pool, or the old
\* prompt when the pool is empty
NextPromptAfterHit(list, oldPrompt) ==
    IF Len(list) > 0 THEN RandomOf(list) ELSE {oldPrompt}

\* ExploreClick without its setInfo(null)
ExploreClickKeepsInfo(name) ==
    /\ Cardinality(inflight) < MaxInflight
    /\ inflight' = inflight \cup {[name |-> name, dataset |-> dataset]}
    /\ UNCHANGED geoBumps
    /\ Render([View EXCEPT !.selectedName = name], FALSE, localStorage)

\* onGeoClick in Explore mode: select the region and start its fetch
ExploreClick(name) ==
    /\ Cardinality(inflight) < MaxInflight
    /\ inflight' = inflight \cup {[name |-> name, dataset |-> dataset]}
    /\ UNCHANGED geoBumps
    /\ Render([View EXCEPT !.selectedName = name, !.info = JSNull],
              FALSE, localStorage)

\* CorrectClick without its setTimeLeft(duration)
CorrectClickKeepsTime(name) ==
    /\ score < MaxScore
    /\ UNCHANGED <<inflight, geoBumps>>
    /\ LET val == score + 1
           key == hsKey(dataset, mode)
       IN  \E p \in NextPromptAfterHit(namesRef, prompt) :
             Render([View EXCEPT !.score = val,
                                 !.highScore = BumpedDisplay(localStorage, key, val, highScore),
                                 !.streak = streak + 1,
                                 !.message = "Correct!",
                                 !.prompt = p],
                    FALSE, bumpHighScore(localStorage, key, val))

\* onGeoClick in Click mode, the clicked name matching the prompt
CorrectClick(name) ==
    /\ score < MaxScore
    /\ UNCHANGED <<inflight, geoBumps>>
    /\ LET val == score + 1
           key == hsKey(dataset, mode)
       IN  \E p \in NextPromptAfterHit(namesRef, prompt) :
             Render([View EXCEPT !.score = val,
                                 !.highScore = BumpedDisplay(localStorage, key, val, highScore),
                                 !.streak = streak + 1,
                                 !.message = "Correct!",
                                 !.prompt = p,
                                 !.timeLeft = duration],
                    FALSE, bumpHighScore(localStorage, key, val))

\* WrongClick without its setStreak(0)
WrongClickKeepsStreak(name) ==
    /\ UNCHANGED <<inflight, geoBumps>>
    /\ LET next == LoseLife(lives)
       IN  \E p \in NextPromptAfterMiss(namesRef, prompt, name) :
             Render([View EXCEPT !.lives = next,
                                 !.gameOver = (next = 0) \/ gameOver,
                                 !.message = "That was " \o name \o ".",
                                 !.prompt = p,
                                 !.timeLeft = duration],
                    FALSE, localStorage)

\* onGeoClick in Click mode, the clicked name not matching the prompt
WrongClick(name) ==
    /\ UNCHANGED <<inflight, geoBumps>>
    /\ LET next == LoseLife(lives)
       IN  \E p \in NextPromptAfterMiss(namesRef, prompt, name) :
             Render([View EXCEPT !.streak = 0,
                                 !.lives = next,
                                 !.gameOver = (next = 0) \/ gameOver,
                                 !.message = "That was " \o name \o ".",
                                 !.prompt = p,
                                 !.timeLeft = duration],
                    FALSE, localStorage)

\* onGeoClick without its "if (gameOver) return"
onGeoClickUnguarded(geo) ==
    LET name == getName(dataset, geo)
    IN  IF ~Truthy(name) THEN UNCHANGED state
        ELSE IF mode = "explore" THEN ExploreClick(name)
        ELSE IF mode = "click"
        THEN IF ~Truthy(prompt) THEN UNCHANGED state
             ELSE IF norm(name) = norm(prompt) THEN CorrectClick(name)
             ELSE WrongClick(name)
        ELSE /\ UNCHANGED <<inflight, geoBumps>>
             /\ Render([View EXCEPT
                          !.message = "A region is highlighted. Type its name to score."],
                       FALSE, localStorage)

\* onGeoClick(geo): a click on one of the regions on the map
onGeoClick(geo) ==
    LET name == getName(dataset, geo)
    IN  IF gameOver \/ ~Truthy(name) THEN UNCHANGED state
        ELSE IF mode = "explore" THEN ExploreClick(name)
        ELSE IF mode = "click"
        THEN IF ~Truthy(prompt) THEN UNCHANGED state
             ELSE IF norm(name) = norm(prompt) THEN CorrectClick(name)
             ELSE WrongClick(name)
        ELSE /\ UNCHANGED <<inflight, geoBumps>>
             /\ Render([View EXCEPT
                          !.message = "A region is highlighted. Type its name to score."],
                       FALSE, localStorage)

GeoClick == \E i \in 1..Len(geographies) : onGeoClick(geographies[i])

\* submitTyped with a matching answer
CorrectTyped ==
    /\ score < MaxScore
    /\ UNCHANGED <<inflight, geoBumps>>
    /\ LET val == score + 1
           key == hsKey(dataset, mode)
       IN  \E p \in NextPromptAfterHit(namesRef, prompt) :
             Render([View EXCEPT !.score = val,
                                 !.highScore = BumpedDisplay(localStorage, key, val, highScore),
                                 !.streak = streak + 1,
                                 !.message = "Correct!",
                                 !.input = "",
                                 !.prompt = p,
                                 !.timeLeft = duration],
                    FALSE, bumpHighScore(localStorage, key, val))

\* WrongTyped selecting the next prompt as a wrong click does
WrongTypedAsksNext ==
    /\ UNCHANGED <<inflight, geoBumps>>
    /\ LET next == LoseLife(lives)
       IN  \E p \in NextPromptAfterMiss(namesRef, prompt, input) :
             Render([View EXCEPT !.streak = 0,
                                 !.lives = next,
                                 !.gameOver = (next = 0) \/ gameOver,
                                 !.message = "Not quite. Try again.",
                                 !.input = "",
                                 !.prompt = p,
                                 !.timeLeft = duration],
                    FALSE, localStorage)

\* submitTyped with a wrong answer
WrongTyped ==
    /\ UNCHANGED <<inflight, geoBumps>>
    /\ LET next == LoseLife(lives)
       IN  Render([View EXCEPT !.streak = 0,
                               !.lives = next,
                               !.gameOver = (next = 0) \/ gameOver,
                               !.message = "Not quite. Try again.",
                               !.input = "",
                               !.timeLeft = duration],
                  FALSE, localStorage)

\* submitTyped comparing the normalized strings instead of matchesAnswer
submitTypedExact ==
    /\ mode = "type"
    /\ IF gameOver \/ ~Truthy(prompt) THEN UNCHANGED state
       ELSE IF norm(input) = norm(prompt) THEN CorrectTyped
       ELSE WrongTyped

\* submitTyped: the form of Type mode is submitted
submitTyped ==
    /\ mode = "type"
    /\ IF gameOver \/ ~Truthy(prompt) THEN UNCHANGED state
       ELSE IF matchesAnswer(input, prompt) THEN CorrectTyped
       ELSE WrongTyped

\* onChange of the text input of Type mode: setInput(e.target.value)
TypeInput(text) ==
    /\ mode = "type" /\ text # input
    /\ UNCHANGED <<inflight, geoBumps>>
    /\ Render([View EXCEPT !.input = text], FALSE, localStorage)

\* resetAll without its setPrompt(null)
resetAllKeepsPrompt ==
    /\ UNCHANGED <<inflight, geoBumps>>
    /\ Render([View EXCEPT !.score = 0, !.streak = 0, !.lives = StartLives,
                           !.message = "", !.input = "",
                           !.gameOver = FALSE, !.selectedName = null,
                           !.info = JSNull, !.timeLeft = duration],
              FALSE, localStorage)

\* resetAll without its setStreak(0)
resetAllKeepsStreak ==
    /\ UNCHANGED <<inflight, geoBumps>>
    /\ Render([View EXCEPT !.score = 0, !.lives = StartLives,
                           !.message = "", !.input = "", !.prompt = null,
                           !.gameOver = FALSE, !.selectedName = null,
                           !.info = JSNull, !.timeLeft = duration],
              FALSE, localStorage)

\* resetAll: the Reset and Play Again buttons
resetAll ==
    /\ UNCHANGED <<inflight, geoBumps>>
    /\ Render([View EXCEPT !.score = 0, !.streak = 0, !.lives = StartLives,
                           !.message = "", !.input = "", !.prompt = null,
                           !.gameOver = FALSE, !.selectedName = null,
                           !.info = JSNull, !.timeLeft = duration],
              FALSE, localStorage)

\* A mode switch that also restarts the game, as a dataset switch does
SetModeRestarts(m) ==
    /\ m # mode
    /\ UNCHANGED <<inflight, geoBumps>>
    /\ Render([View EXCEPT !.mode = m, !.message = "", !.input = "",
                           !.lives = StartLives, !.gameOver = FALSE],
              FALSE, localStorage)

\* onChange of the mode select
SetMode(m) ==
    /\ m # mode
    /\ UNCHANGED <<inflight, geoBumps>>
    /\ Render([View EXCEPT !.mode = m, !.message = "", !.input = ""],
              FALSE, localStorage)

\* onChange of the dataset select
SetDataset(d) ==
    /\ d # dataset
    /\ UNCHANGED <<inflight, geoBumps>>
    /\ Render([View EXCEPT !.dataset = d], FALSE, localStorage)

\* onChange of the countdown checkbox (shown in Click and Type mode)
SetTimerOn ==
    /\ Quiz(mode)
    /\ UNCHANGED <<inflight, geoBumps>>
    /\ Render([View EXCEPT !.timerOn = ~timerOn], FALSE, localStorage)

\* onChange of the duration select (enabled while the countdown is on)
SetDuration(secs) ==
    /\ Quiz(mode) /\ timerOn /\ secs # duration
    /\ UNCHANGED <<inflight, geoBumps>>
    /\ Render([View EXCEPT !.duration = secs], FALSE, localStorage)

\* Tick counting on from 0 instead of restarting at the duration
TickWithoutRestart ==
    /\ timerLive
    /\ UNCHANGED <<inflight, geoBumps>>
    /\ IF timeLeft <= 1
       THEN LET next == LoseLife(lives)
            IN  Render([View EXCEPT !.lives = next,
                                    !.gameOver = (next = 0) \/ gameOver,
                                    !.timeLeft = 0],
                       FALSE, localStorage)
       ELSE Render([View EXCEPT !.timeLeft = timeLeft - 1], FALSE, localStorage)

\* Tick with a timeout that resets the streak, as a miss does
TickResetsStreak ==
    /\ timerLive
    /\ UNCHANGED <<inflight, geoBumps>>
    /\ IF timeLeft <= 1
       THEN LET next == LoseLife(lives)
            IN  Render([View EXCEPT !.streak = 0,
                                    !.lives = next,
                                    !.gameOver = (next = 0) \/ gameOver,
                                    !.timeLeft = duration],
                       FALSE, localStorage)
       ELSE Render([View EXCEPT !.timeLeft = timeLeft - 1], FALSE, localStorage)

\* One tick of the countdown interval
Tick ==
    /\ timerLive
    /\ UNCHANGED <<inflight, geoBumps>>
    /\ IF timeLeft <= 1
       THEN LET next == LoseLife(lives)
            IN  Render([View EXCEPT !.lives = next,
                                    !.gameOver = (next = 0) \/ gameOver,
                                    !.timeLeft = duration],
                       FALSE, localStorage)
       ELSE Render([View EXCEPT !.timeLeft = timeLeft - 1], FALSE, localStorage)

\* The geometry fetch of the mounted <Geographies> resolves and the render
\* callback of GeoLayer is called with its features
GeoLoaded ==
    /\ ~mapLoaded
    /\ Len(Payload(dataset)) > 0
    /\ mapLoaded' = TRUE
    /\ namesRef' = PoolNames[dataset]
    /\ IF lastLenRef # Len(Pool[dataset])
       THEN /\ geoBumps < MaxGeoBumps
            /\ lastLenRef' = Len(Pool[dataset])
            /\ geoBumps' = geoBumps + 1
       ELSE UNCHANGED <<lastLenRef, geoBumps>>
    /\ UNCHANGED <<dataset, mode, prompt, input, score, streak, lives, message,
                   gameOver, highScore, localStorage, selectedName, info,
                   inflight, timerOn, duration, timeLeft, intervals, session,
                   lib>>

\* The timeout set by the render callback fires: setGeoVersion((v) => v + 1)
GeoVersionBump ==
    /\ geoBumps > 0
    /\ geoBumps' = geoBumps - 1
    /\ UNCHANGED inflight
    /\ Render(View, TRUE, localStorage)

\* The record an Explore fetch resolves with: fetchCountryInfo gives a
\* record or null, fetchSubnationalInfo always a record
FetchResults(req) ==
    IF exploreScope(req.dataset) = "country"
    THEN {[t |-> "obj", name |-> req.name], JSNull}
    ELSE {[t |-> "obj", name |-> req.name]}

\* fetch...(name).then(setInfo)
FetchResolved(req) ==
    /\ req \in inflight
    /\ inflight' = inflight \ {req}
    /\ UNCHANGED geoBumps
    /\ \E r \in FetchResults(req) :
         Render([View EXCEPT !.info = r], FALSE, localStorage)

(***************************** Library calls *******************************)
\* The names and the exploreScope contexts fetchSubnationalInfo is called
\* with: a province of canada, a borough of nyc
FetchNames == {"Quebec", "Bronx"}
Contexts ==
    {[city |-> null, country |-> "Canada"],
     [city |-> "New York City", country |-> "United States"]}

\* tryTitles: the candidates in their order, .filter(Boolean) applied
tryTitles(name, context) ==
    SelectSeq(
        <<IF Truthy(context.city) THEN name \o ", " \o context.city ELSE null,
          IF Truthy(context.country) THEN name \o ", " \o context.country ELSE null,
          IF Truthy(context.country)
          THEN name \o " (" \o context.country \o ")" ELSE null,
          name \o " (state)", name \o " (province)", name \o " (district)",
          name \o " (territory)", name>>,
        Truthy)

\* What the summary service may answer with for a title: a page, or a body
\* without the fields read
Bodies(title) ==
    {[title |-> title, description |-> null, extract |-> "text"],
     [title |-> null, description |-> null, extract |-> null]}

\* How one request may end: fetch rejects, res.ok is false, res.json()
\* rejects, or the response is OK with a body
Outcomes(title) ==
    {[kind |-> "rejected"], [kind |-> "notOk"], [kind |-> "badJson"]}
    \cup {[kind |-> "ok", body |-> b] : b \in Bodies(title)}

\* The record returned for the body j of an OK response
SummaryRecord(j, name) ==
    [title |-> OrElse(j.title, name),
     description |-> OrElse(OrElse(j.description, j.extract), ""),
     summary |-> OrElse(j.extract, ""),
     image |-> null, flag |-> null, coat |-> null, sourceUrl |-> null]

\* The record returned when every candidate failed
EmptyRecord(name) ==
    [title |-> name, description |-> "", summary |-> "",
     image |-> null, flag |-> null, coat |-> null, sourceUrl |-> null]

\* FetchStep with one try/catch around the loop: an exception ends the call
FetchStepGivesUpOnError(f, outcome) ==
    LET titles == tryTitles(f.name, f.context)
        k == Len(f.requests)
    IN  IF outcome.kind = "ok"
        THEN [f EXCEPT !.done = TRUE,
                       !.result = SummaryRecord(outcome.body, f.name)]
        ELSE IF outcome.kind \in {"rejected", "badJson"}
        THEN [f EXCEPT !.failures = @ + 1, !.done = TRUE, !.result = JSNull]
        ELSE IF k < Len(titles)
        THEN [f EXCEPT !.failures = @ + 1,
                       !.requests = Append(@, titles[k + 1])]
        ELSE [f EXCEPT !.failures = @ + 1, !.done = TRUE,
                       !.result = EmptyRecord(f.name)]

\* The call f of fetchSubnationalInfo after its pending request ended with
\* outcome: return on an OK response, else request the next candidate, or
\* return the empty record after the last
FetchStep(f, outcome) ==
    LET titles == tryTitles(f.name, f.context)
        k == Len(f.requests)
    IN  IF outcome.kind = "ok"
        THEN [f EXCEPT !.done = TRUE,
                       !.result = SummaryRecord(outcome.body, f.name)]
        ELSE IF k < Len(titles)
        THEN [f EXCEPT !.failures = @ + 1,
                       !.requests = Append(@, titles[k + 1])]
        ELSE [f EXCEPT !.failures = @ + 1, !.done = TRUE,
                       !.result = EmptyRecord(f.name)]

\* fetchSubnationalInfo(name, context) is called and issues its first request
CallFetch(name, context) ==
    /\ lib' = [fn |-> "fetchSubnationalInfo", name |-> name,
               context |-> context,
               requests |-> <<tryTitles(name, context)[1]>>,
               failures |-> 0, done |-> FALSE, result |-> JSNull]
    /\ UNCHANGED <<game, lastEvent>>

\* The pending request of the call ends
FetchResponse ==
    /\ lib.fn = "fetchSubnationalInfo" /\ ~lib.done
    /\ \E o \in Outcomes(lib.requests[Len(lib.requests)]) :
         lib' = FetchStep(lib, o)
    /\ UNCHANGED <<game, lastEvent>>

\* The answers and the canonical names matchesAnswer is called with
Canonicals ==
    {"Prince Edward Island", "New York", "Cote d'Ivoire", "Texas", "Quebec",
     "Chad", "Constructor"}
Answers ==
    Canonicals \cup {"PEI", "NY", "Ivory Coast", "tx", " QUE^BEC", "pq", ""}

\* matchesAnswer(answer, canonical) is called and returns or throws
CallMatches(answer, canonical) ==
    /\ lib' = [fn |-> "matchesAnswer", answer |-> answer,
               canonical |-> canonical,
               result |-> matchesAnswerResult(answer, canonical)]
    /\ UNCHANGED <<game, lastEvent>>

\* The texts norm is called with: none, empty, blank, and spellings of two
\* names that differ in case, accents and spacing
NormInputs ==
    {null, "", "  ", "^", "Qu1bec", "QU2BEC", "Que^bec", "quebec", "QUEBEC",
     " Quebec\t", "New York", "new   york", "NEW \n YORK "}

\* norm(s) is called and returns
CallNorm(s) ==
    /\ lib' = [fn |-> "norm", input |-> s, result |-> norm(s)]
    /\ UNCHANGED <<game, lastEvent>>

\* Coordinate payloads: points, rings, polygons, and broken ones
Point == Arr(<<Num(0), Num(0)>>)
BadPoint == Arr(<<NotFinite, Num(0)>>)
CoordinatePayloads ==
    {JSNull, Arr(<<>>), Arr(<<Arr(<<>>)>>), Arr(<<Arr(<<Arr(<<>>)>>)>>),
     Point, Arr(<<Point, Point>>),
     Arr(<<Ring>>), Arr(<<Arr(<<BadPoint, Point>>)>>),
     Arr(<<Arr(<<Point, JSNull>>), JSNull>>),
     Arr(<<Arr(<<>>), Ring>>),
     Arr(<<Arr(<<Ring>>)>>), Arr(<<Arr(<<Ring>>), JSNull>>),
     Arr(<<Arr(<<>>), Arr(<<Ring>>)>>),
     Arr(<<Arr(<<Arr(<<BadPoint>>)>>), Arr(<<Ring>>)>>)}

GeometryTypes == {"Polygon", "MultiPolygon", "Point", "LineString"}

\* The features isRenderableFeature is called with: none, one without
\* geometry, and every type with every payload
Features ==
    {JSNull, Feature(JSNull, [name |-> "Chad"])}
    \cup {Feature([t |-> "obj", type |-> ty, coordinates |-> c], [name |-> "Chad"]) :
              ty \in GeometryTypes, c \in CoordinatePayloads}

\* isRenderableFeature(f) is called and returns
CallRenderable(f) ==
    /\ lib' = [fn |-> "isRenderableFeature", feature |-> f,
               result |-> isRenderableFeature(f)]
    /\ UNCHANGED <<game, lastEvent>>

\* One disjunct per event; the session says which of them its user causes.
Next ==
    \/ GeoLoaded /\ lastEvent' = Other
    \/ GeoVersionBump /\ lastEvent' = Other
    \/ /\ mode \in ClicksIn(session)
       /\ \E i \in 1..Len(geographies) :
            /\ onGeoClick(geographies[i])
            /\ lastEvent' = IF mode = "explore"
                            THEN ExploreClicked(getName(dataset, geographies[i]))
                            ELSE Other
    \/ resetAll /\ lastEvent' = Reset
    \/ (\E m \in ModesOf(session) : SetMode(m)) /\ lastEvent' = Switch
    \/ (\E d \in DatasetsOf(session) : SetDataset(d)) /\ lastEvent' = Switch
    \/ session \in Timed /\ SetTimerOn /\ lastEvent' = Other
    \/ session \in Retimed /\ (\E secs \in Durations : SetDuration(secs))
       /\ lastEvent' = Other
    \/ session \in Timed /\ Tick /\ lastEvent' = Other
    \/ session = "typing" /\ (\E text \in TypedTexts : TypeInput(text))
       /\ lastEvent' = Other
    \/ session = "typing" /\ submitTyped /\ lastEvent' = Submission
    \/ session = "explore" /\ (\E req \in inflight : FetchResolved(req))
       /\ lastEvent' = Other

Spec == Init /\ [][Next]_vars

\* What happens without the user: a geometry fetch that is under way
\* resolves, a timeout that is set fires, an interval that is set ticks, a
\* lookup that is in flight resolves.  The user's events may never come.
Scheduling ==
    /\ WF_vars(GeoLoaded /\ lastEvent' = Other)
    /\ WF_vars(GeoVersionBump /\ lastEvent' = Other)
    /\ WF_vars(session \in Timed /\ Tick /\ lastEvent' = Other)
    /\ WF_vars(session = "explore" /\ (\E req \in inflight : FetchResolved(req))
                /\ lastEvent' = Other)

LiveSpec == Init /\ [][Next]_vars /\ Scheduling

\* The library functions called on their own
LibInit == Init /\ session = "explore"

LibNext ==
    \/ \E name \in FetchNames, context \in Contexts : CallFetch(name, context)
    \/ FetchResponse
    \/ \E answer \in Answers, canonical \in Canonicals :
         CallMatches(answer, canonical)
    \/ \E s \in NormInputs : CallNorm(s)
    \/ \E f \in Features : CallRenderable(f)

LibSpec == LibInit /\ [][LibNext]_vars

(******************************** Claims ***********************************)
\* A click on geo is a Click-mode miss: the game is on, a prompt is set and
\* the normalized clicked name differs from the normalized prompt
IsMiss(geo) ==
    /\ mode = "click" /\ ~gameOver /\ Truthy(prompt)
    /\ Truthy(getName(dataset, geo))
    /\ norm(getName(dataset, geo)) # norm(prompt)

\* A click on geo is a correct Click-mode click
IsHit(geo) ==
    /\ mode = "click" /\ ~gameOver /\ Truthy(prompt)
    /\ Truthy(getName(dataset, geo))
    /\ norm(getName(dataset, geo)) = norm(prompt)

\* C1: every Click-mode miss leaves streak = 0 and lives exactly one less,
\* never below 0, and game-over turns true on exactly the miss that takes
\* lives from 1 to 0.
C1_MissCostsOneLife ==
    [][\A i \in 1..Len(geographies) :
         (IsMiss(geographies[i]) /\ onGeoClick(geographies[i]))
         => /\ streak' = 0
            /\ lives' = lives - 1
            /\ lives' >= 0
            /\ (gameOver' <=> lives = 1)]_vars

\* The miss that ended a game: the last of five
C1_Witness ==
    /\ mode = "click" /\ gameOver /\ lives = 0 /\ streak = 0
    /\ message = "That was Quebec."

\* C2: in every reachable state game-over is true exactly when lives = 0,
\* and lives is an integer in 0..5.
C2_GameOverIffNoLives ==
    /\ lives \in 0..StartLives
    /\ gameOver <=> lives = 0

\* A game that the countdown ended
C2_Witness ==
    /\ gameOver /\ lives = 0 /\ timerOn /\ message = ""
    /\ timeLeft = duration

\* C3 as claimed: once game-over is true it stays true through every event
\* other than resetAll.
C3_TerminalUntilReset ==
    [][(gameOver /\ ~resetAll) => gameOver']_vars

\* C3, amended: once game-over is true it stays true through every event
\* other than resetAll and a switch to another dataset.
C3_TerminalUntilResetOrDataset ==
    [][(gameOver /\ ~resetAll /\ dataset' = dataset) => gameOver']_vars

\* A game that is over and in which the mode was switched afterwards
C3_Witness ==
    /\ gameOver /\ mode = "explore"

\* C4: while game-over is true a region click, a typed submission and a
\* countdown tick each leave score, streak, lives, prompt, message, input
\* and time-left unchanged, and no countdown interval is live.
C4_InertWhenOver ==
    /\ [][(gameOver /\ (GeoClick \/ submitTyped \/ Tick))
          => UNCHANGED <<score, streak, lives, prompt, message, input,
                         timeLeft>>]_vars
    /\ [](gameOver => ~timerLive)

\* A game over with the countdown switched on, the map loaded and a prompt
\* on display: a click or a tick would count if the game were on
C4_Witness ==
    /\ gameOver /\ timerOn /\ mapLoaded /\ mode = "click" /\ Truthy(prompt)

\* C5: resetAll yields lives = 5, score = 0, streak = 0, an empty message
\* and input, no prompt, no selected region, no info, game-over false and
\* time-left = duration; it leaves dataset, mode, the countdown flag, the
\* duration and every stored high score unchanged.
C5_ResetRestoresInitial ==
    [][resetAll
       => /\ lives' = StartLives /\ score' = 0 /\ streak' = 0
          /\ message' = "" /\ input' = "" /\ prompt' = null
          /\ selectedName' = null /\ info' = JSNull
          /\ gameOver' = FALSE /\ timeLeft' = duration
          /\ UNCHANGED <<dataset, mode, timerOn, duration, localStorage>>]_vars

\* After a reset of a game in which a point was scored
C5_Witness ==
    /\ score = 0 /\ lives = StartLives /\ prompt = null /\ message = ""
    /\ Len(namesRef) > 0 /\ mode = "click"
    /\ localStorage[hsKey(dataset, mode)] = MaxScore

\* C6: no stored high score ever decreases; a record is written only for
\* the active (dataset, mode) pair, only with the new score, and only when
\* that score is strictly greater than the stored value.
C6_HighScoreMonotonic ==
    [][\A k \in HsKeys :
         /\ localStorage'[k] >= localStorage[k]
         /\ localStorage'[k] # localStorage[k]
            => /\ k = hsKey(dataset, mode)
               /\ localStorage'[k] = score'
               /\ score' > localStorage[k]]_vars

\* A point scored below the stored high score, which stays
C6_Witness ==
    /\ score = 1 /\ message = "Correct!"
    /\ localStorage[hsKey(dataset, mode)] = PriorBest

\* C7: a correct Click-mode click adds 1 to score and to streak, raises
\* the active pair's stored high score to the new score if that is greater,
\* selects the next prompt from the whole pool, sets time-left to the
\* duration and leaves lives and game-over unchanged.
C7_CorrectClick ==
    [][\A i \in 1..Len(geographies) :
         (IsHit(geographies[i]) /\ onGeoClick(geographies[i]))
         => LET key == hsKey(dataset, mode)
            IN  /\ score' = score + 1
                /\ streak' = streak + 1
                /\ localStorage'[key] =
                     IF score + 1 > localStorage[key] THEN score + 1
                     ELSE localStorage[key]
                /\ prompt' \in RandomOf(namesRef)
                /\ timeLeft' = duration
                /\ lives' = lives /\ gameOver' = gameOver]_vars

\* A correct click after which the one region of the pool is asked again
C7_Witness ==
    /\ dataset = "world" /\ mode = "click" /\ message = "Correct!"
    /\ score = 1 /\ streak = 1 /\ prompt = "Chad" /\ namesRef = <<"Chad">>

\* C8: after a Click-mode miss the next prompt is a pool name differing
\* (normalized) from the old prompt and from the clicked name when there is
\* one, else a pool name differing from the old prompt; with the pool
\* Ontario, Quebec, the prompt Ontario and a click on Quebec, the next
\* prompt is Quebec and the message "That was Quebec.".
C8_NextPromptAfterMiss ==
    [][\A i \in 1..Len(geographies) :
         (IsMiss(geographies[i]) /\ onGeoClick(geographies[i]))
         => LET name == getName(dataset, geographies[i])
                others == {n \in RandomOf(namesRef) : norm(n) # norm(prompt)}
                fresh == {n \in others : norm(n) # norm(name)}
            IN  /\ fresh # {} => prompt' \in fresh
                /\ (fresh = {} /\ others # {}) => prompt' \in others
                /\ (namesRef = <<"Ontario", "Quebec">> /\ prompt = "Ontario"
                    /\ name = "Quebec")
                   => (prompt' = "Quebec" /\ message' = "That was Quebec.")]_vars

\* The scenario of the claim: Quebec clicked for Ontario, Quebec asked next
C8_Witness ==
    /\ dataset = "canada" /\ namesRef = <<"Ontario", "Quebec">>
    /\ mode = "click" /\ message = "That was Quebec." /\ prompt = "Quebec"
    /\ lives = StartLives - 1

C10_TypedScoring ==
    [][(mode = "type" /\ ~gameOver /\ Truthy(prompt) /\ submitTyped)
       => /\ matchesAnswer("tx", "Texas")
          /\ IF matchesAnswer(input, prompt)
             THEN score' = score + 1 /\ streak' = streak + 1 /\ lives' = lives
             ELSE /\ streak' = 0
                  /\ lives' = (IF lives > 1 THEN lives - 1 ELSE 0)
                  /\ (gameOver' <=> lives' = 0)
                  /\ score' = score]_vars

\* A typed alias that scored
C10_Witness ==
    /\ mode = "type" /\ message = "Correct!" /\ score = 1 /\ streak = 1
    /\ lives = StartLives

\* C11: after every submission of the Type-mode form the typed input is
\* empty, whatever the outcome, also when no prompt is set or the game is
\* over.
C11_InputEmptyAfterSubmit ==
    submitted => input = ""

\* A submission made while the game is over, the typed text still there
C11_TextSurvivesSubmit ==
    /\ submitted /\ mode = "type" /\ gameOver /\ input = "qc"

\* C12: a tick is delivered only with the countdown on, in Click or Type
\* mode and the game not over; the tick that finds time-left at 1 or less
\* takes one life (not below 0), sets game-over if lives reach 0 and sets
\* time-left back to the duration; every other tick only takes 1 from
\* time-left.  With lives = 1 the timeout gives lives = 0, game-over and
\* time-left = duration.
C12_TickCountsDown ==
    [][Tick
       => /\ timerOn /\ Quiz(mode) /\ ~gameOver
          /\ UNCHANGED <<score, streak, prompt, message, input, duration>>
          /\ IF timeLeft <= 1
             THEN /\ lives' = (IF lives > 1 THEN lives - 1 ELSE 0)
                  /\ (gameOver' <=> lives' = 0)
                  /\ timeLeft' = duration
             ELSE /\ timeLeft' = timeLeft - 1
                  /\ UNCHANGED <<lives, gameOver>>
          /\ (lives = 1 /\ timeLeft <= 1)
             => (lives' = 0 /\ gameOver' /\ timeLeft' = duration)]_vars

\* A Type-mode game that the countdown ended
C12_Witness ==
    /\ mode = "type" /\ timerOn /\ gameOver /\ lives = 0
    /\ timeLeft = duration /\ message = ""

\* C13: at most one countdown interval is set at any time, and one is set
\* exactly while the countdown is on, the game is not over and the mode is
\* Click or Type: none while the countdown is off, the game is over or the
\* mode is Explore.
C13_OneTimer ==
    /\ intervals \in {0, 1}
    /\ intervals = 1 <=> (timerOn /\ ~gameOver /\ mode # "explore")

\* The one interval of a game in which the duration was changed and lives
\* were lost
C13_Witness ==
    /\ intervals = 1 /\ duration = ShortDuration /\ mode = "type"
    /\ lives = 1

\* C14: a dataset switch and a mode switch each leave the message and the
\* input empty and the prompt none or a name selected from the pool; a
\* dataset switch also sets lives to 5 and game-over to false.
C14_SwitchResets ==
    [][(dataset' # dataset \/ mode' # mode)
       => /\ message' = "" /\ input' = ""
          /\ prompt' = null \/ prompt' \in RandomOf(namesRef)
          /\ dataset' # dataset => (lives' = StartLives /\ ~gameOver')]_vars

\* C15: a dataset switch leaves score = 0 and streak = 0 as well as
\* lives = 5 and game-over false.
C15_DatasetSwitchResetsScore ==
    [][dataset' # dataset
       => (score' = 0 /\ streak' = 0 /\ lives' = StartLives /\ ~gameOver')]_vars

\* The geometry of the active dataset is loaded and no prompt regeneration
\* of the load is pending
LoadProcessed == mapLoaded /\ geoBumps = 0

\* C16: in Click or Type mode with the game not over, once the geometry of
\* the active dataset has loaded with a non-empty pool and the load is
\* processed, the prompt is a name of that dataset's pool.
C16_PromptFromLoadedPool ==
    (LoadProcessed /\ Quiz(mode) /\ ~gameOver /\ Len(Pool[dataset]) > 0)
    => prompt \in RandomOf(PoolNames[dataset])

\* The 48 states loaded after Canada, a pool of the same length: the
\* prompt is still a Canadian province
C16_StalePromptAfterLoad ==
    /\ dataset = "usa48" /\ LoadProcessed /\ mode = "click" /\ ~gameOver
    /\ prompt = "Ontario" /\ namesRef = PoolNames["usa48"]

\* C17 as claimed: a click on a named region in Explore mode leaves score,
\* streak, lives, game-over and prompt unchanged, sets the selected region
\* to the clicked name and info to none, and info stays none until a fetch
\* resolves.
C17_ExploreClickSelects ==
    /\ [](lastEvent.kind = "explore"
          => (selectedName = lastEvent.name /\ info = JSNull))
    /\ [][lastEvent'.kind = "explore"
          => UNCHANGED <<score, streak, lives, gameOver, prompt>>]_vars
    /\ [][(info = JSNull /\ info' # JSNull)
          => \E req \in inflight : FetchResolved(req)]_vars

\* C17, amended: while the game is not over, a click on a named region in
\* Explore mode leaves score, streak, lives, game-over and prompt
\* unchanged, sets the selected region to the clicked name and info to
\* none, and info stays none until a fetch resolves; while the game is
\* over the click changes nothing.
C17_ExploreClickSelectsWhilePlaying ==
    /\ []((lastEvent.kind = "explore" /\ ~gameOver)
          => (selectedName = lastEvent.name /\ info = JSNull))
    /\ [][lastEvent'.kind = "explore"
          => /\ UNCHANGED <<score, streak, lives, gameOver, prompt>>
             /\ gameOver => UNCHANGED state]_vars
    /\ [][(info = JSNull /\ info' # JSNull)
          => \E req \in inflight : FetchResolved(req)]_vars

\* Quebec clicked in Explore mode while the fetch for another region is
\* in flight, after the countdown took a life
C17_Witness ==
    /\ lastEvent = ExploreClicked("Quebec") /\ selectedName = "Quebec"
    /\ info = JSNull /\ Cardinality(inflight) = 2 /\ lives = StartLives - 1

\* C18: whenever info is not none it is the record fetched for the region
\* that is selected now; a response for a region clicked before, resolving
\* late, does not determine what is shown.
C18_InfoOfSelectedRegion ==
    info # JSNull => info.name = selectedName

\* Ontario then Quebec clicked; Ontario's response resolved last and is
\* shown for Quebec
C18_LateResponseShown ==
    /\ mode = "explore" /\ selectedName = "Quebec" /\ inflight = {}
    /\ info = [t |-> "obj", name |-> "Ontario"]

\* The seven candidates of the claim, in its order
ClaimedTitles(name, country) ==
    <<name \o ", " \o country, name \o " (" \o country \o ")",
      name \o " (state)", name \o " (province)", name \o " (district)",
      name \o " (territory)", name>>

IsPrefix(p, q) == Len(p) <= Len(q) /\ p = SubSeq(q, 1, Len(p))

\* The call f has requested the titles of expected in their order, each
\* after the one before it failed and none after a success; it has not
\* returned while a request is pending; what it returns is a record, never
\* null, and after the last candidate failed the record with the bare name
\* as title and empty descriptive fields
FetchFollows(f, expected) ==
    /\ IsPrefix(f.requests, expected)
    /\ f.failures \in {Len(f.requests) - 1, Len(f.requests)}
    /\ ~f.done => (f.failures = Len(f.requests) - 1 /\ f.result = JSNull)
    /\ f.done
       => /\ f.result # JSNull
          /\ f.result.title # null
          /\ f.failures = Len(f.requests)
             => (f.requests = expected /\ f.result = EmptyRecord(f.name))

\* C19 as claimed: fetchSubnationalInfo never returns null and never
\* fails; it requests "Name, Country", "Name (Country)", "Name (state)",
\* "Name (province)", "Name (district)", "Name (territory)" and the bare
\* name in this order, moves on after a response that is not OK and after
\* a network or parse error, stops at the first success, and returns the
\* record with the bare name and empty fields if every candidate failed.
C19_FetchTriesSevenTitles ==
    lib.fn = "fetchSubnationalInfo"
    => FetchFollows(lib, ClaimedTitles(lib.name, lib.context.country))

\* C19, amended: as claimed, but where the context names a city the first
\* candidate is "Name, City", before the seven.
C19_FetchTriesCityFirst ==
    lib.fn = "fetchSubnationalInfo"
    => FetchFollows(lib,
           (IF Truthy(lib.context.city)
            THEN <<lib.name \o ", " \o lib.context.city>> ELSE <<>>)
           \o ClaimedTitles(lib.name, lib.context.country))

\* Every one of the eight candidates for a borough failed
C19_Witness ==
    /\ lib.fn = "fetchSubnationalInfo" /\ lib.done
    /\ lib.context.city = "New York City" /\ lib.failures = 8
    /\ lib.result = EmptyRecord("Bronx")

\* C20: matchesAnswer(answer, canonical) returns true exactly when
\* norm(answer) = norm(canonical) or norm(answer) is the normalized form of
\* an alias the table lists for norm(canonical), and never ends in an
\* error: a canonical name absent from the table has no aliases.  Hence
\* matchesAnswer(c, c) is true for every c, and PEI matches Prince Edward
\* Island, NY New York and Ivory Coast Cote d'Ivoire.
C20_MatchesAnswerContract ==
    /\ matchesAnswerResult("PEI", "Prince Edward Island") = "true"
    /\ matchesAnswerResult("NY", "New York") = "true"
    /\ matchesAnswerResult("Ivory Coast", "Cote d'Ivoire") = "true"
    /\ lib.fn = "matchesAnswer"
       => LET a == norm(lib.answer)
              c == norm(lib.canonical)
              listed == IF c \in DOMAIN NAME_ALIASES
                        THEN {norm(NAME_ALIASES[c][i]) :
                                  i \in 1..Len(NAME_ALIASES[c])}
                        ELSE {}
          IN  /\ lib.result = IF a = c \/ a \in listed THEN "true" ELSE "false"
              /\ lib.answer = lib.canonical => lib.result = "true"

\* A wrong answer for a region called Constructor
C20_LookupThrows ==
    /\ lib.fn = "matchesAnswer" /\ lib.canonical = "Constructor"
    /\ lib.answer = "pq" /\ lib.result = "TypeError"

\* Spellings of s that differ from it only in letter case, in accents
\* (precomposed or combining) and in the amount of whitespace
UpperChar(c) ==
    IF c = "1" THEN "2"
    ELSE IF \E i \in 1..26 : CharAt(LOWER, i) = c
    THEN CharAt(UPPER, CHOOSE i \in 1..26 : CharAt(LOWER, i) = c)
    ELSE c

RECURSIVE ToUpperCase(_)
ToUpperCase(s) ==
    IF s = "" THEN "" ELSE UpperChar(CharAt(s, 1)) \o ToUpperCase(Rest(s))

RECURSIVE Widen(_)
Widen(s) ==
    IF s = "" THEN ""
    ELSE (IF IsSpace(CharAt(s, 1)) THEN " \n\t" ELSE CharAt(s, 1))
         \o Widen(Rest(s))

RECURSIVE Accented(_, _)
Accented(s, e) ==
    IF s = "" THEN ""
    ELSE (IF CharAt(s, 1) = "e" THEN e ELSE CharAt(s, 1)) \o Accented(Rest(s), e)

Respellings(x) ==
    LET s == IF x = null THEN "" ELSE x
    IN  {ToUpperCase(s), ToLowerCase(s), "  " \o s \o "\t", Widen(s),
         Accented(s, "1"), Accented(s, "e^")}

\* C21: norm returns a string for every text, for none and for the empty
\* text the empty string; norm(norm(x)) = norm(x); texts that differ only
\* in letter case, diacritics or the amount of surrounding and internal
\* whitespace have the same normal form; norm("Québec") = "quebec".
C21_NormTotalIdempotent ==
    /\ norm("Qu1bec") = "quebec"
    /\ lib.fn = "norm"
       => /\ lib.result # null
          /\ lib.input \in {null, ""} => lib.result = ""
          /\ norm(lib.result) = lib.result
          /\ \A v \in Respellings(lib.input) : norm(v) = lib.result

\* An upper-case spelling with whitespace of every kind
C21_Witness ==
    /\ lib.fn = "norm" /\ lib.input = "NEW \n YORK " /\ lib.result = "new york"

\* polygon[0][0][0] is a finite number
StartsWithFiniteNumber(polygon) ==
    /\ polygon.t = "arr" /\ polygon.v # <<>>
    /\ Head(polygon.v).t = "arr" /\ Head(polygon.v).v # <<>>
    /\ Head(Head(polygon.v).v).t = "arr" /\ Head(Head(polygon.v).v).v # <<>>
    /\ Head(Head(Head(polygon.v).v).v).t = "num"

\* The array a cut down to its first element, cut itself by Cut
FirstOf(a, Cut(_)) ==
    IF a.t = "arr" /\ a.v # <<>> THEN Arr(<<Cut(Head(a.v))>>) ELSE a
Same(x) == x
FirstPointOf(ring) == FirstOf(ring, Same)
FirstRingOf(polygon) == FirstOf(polygon, FirstPointOf)
FirstPolygonOf(multi) == FirstOf(multi, FirstRingOf)

\* The feature f with only the first polygon, ring and point of its geometry
FirstOnly(f) ==
    IF f = JSNull \/ f.geometry = JSNull THEN f
    ELSE [f EXCEPT !.geometry.coordinates =
             IF f.geometry.type = "MultiPolygon"
             THEN FirstPolygonOf(@) ELSE FirstRingOf(@)]

\* C22: isRenderableFeature returns false for a missing feature, a null
\* geometry, missing coordinates, a Polygon with empty coordinates or an
\* empty first ring, a MultiPolygon with no polygon and every geometry
\* type other than Polygon and MultiPolygon; true for a Polygon whose first
\* ring's first point starts with a finite number and for a MultiPolygon
\* whose first polygon does; nothing but the first polygon, ring and point
\* matters.
C22_RenderableProbe ==
    lib.fn = "isRenderableFeature"
    => LET f == lib.feature
           r == lib.result
       IN  /\ f = JSNull => ~r
           /\ (f # JSNull /\ f.geometry = JSNull) => ~r
           /\ (f # JSNull /\ f.geometry # JSNull)
              => LET type == f.geometry.type
                     c == f.geometry.coordinates
                 IN  /\ c = JSNull => ~r
                     /\ type \notin {"Polygon", "MultiPolygon"} => ~r
                     /\ (type = "Polygon" /\ c \in {Arr(<<>>), Arr(<<Arr(<<>>)>>)})
                        => ~r
                     /\ (type = "MultiPolygon" /\ c = Arr(<<>>)) => ~r
                     /\ type = "Polygon" => (r <=> StartsWithFiniteNumber(c))
                     /\ type = "MultiPolygon"
                        => (r <=> /\ c.t = "arr" /\ c.v # <<>>
                                  /\ StartsWithFiniteNumber(Head(c.v)))
           /\ r = isRenderableFeature(FirstOnly(f))

\* A MultiPolygon accepted for its first polygon, the second being null
C22_Witness ==
    /\ lib.fn = "isRenderableFeature" /\ lib.result
    /\ lib.feature.geometry.type = "MultiPolygon"
    /\ lib.feature.geometry.coordinates = Arr(<<Arr(<<Ring>>), JSNull>>)

\* The feature f of dataset d is playable: it passes isRenderableFeature,
\* the name rule of d gives it a non-empty name, and it passes the filter
\* of d if d has one
Playable(d, f) ==
    /\ isRenderableFeature(f)
    /\ getName(d, f) \notin {null, ""}
    /\ HasFilter(d) => filter(d, getName(d, f))

PlayableNames(d) ==
    {getName(d, Payload(d)[k]) : k \in {j \in 1..Len(Payload(d)) : Playable(d, Payload(d)[j])}}

\* C23: every name of the pool is the name, under the rule of the active
\* dataset, of a loaded feature of that dataset that passes
\* isRenderableFeature and the dataset's filter if it has one; once the
\* features are loaded the features failing one of these are not in the
\* pool and the others are; when all fail and the load is processed the
\* pool is empty and no prompt is set.
C23_PoolOfPlayableFeatures ==
    /\ RandomOf(namesRef) \subseteq PlayableNames(dataset)
    /\ mapLoaded => RandomOf(namesRef) = PlayableNames(dataset)
    /\ (LoadProcessed /\ PlayableNames(dataset) = {})
       => (namesRef = <<>> /\ prompt = null)

\* Canada selected, its geometry not yet loaded: the pool is still the
\* world's and the prompt was selected from it
C23_PoolOfLastDataset ==
    /\ dataset = "canada" /\ ~mapLoaded /\ mode = "click"
    /\ namesRef = <<"Chad">> /\ prompt = "Chad"

\* C24: in every state the stored high score of the active pair of dataset
\* and mode is at least the score, also right after a mode or dataset
\* switch made with a score above 0.
C24_HighScoreCoversScore ==
    Stored(localStorage, hsKey(dataset, mode)) >= score

\* A point scored in Click mode and carried into Type mode, whose stored
\* high score is 0
C24_ScoreAboveHighScore ==
    /\ mode = "type" /\ score = 1 /\ highScore = 0
    /\ Stored(localStorage, hsKey(dataset, "type")) = 0
    /\ Stored(localStorage, hsKey(dataset, "click")) = 1

\* Reset was pressed in Click or Type mode with a non-empty pool loaded
ResetInPlay ==
    lastEvent = Reset /\ Quiz(mode) /\ namesRef # <<>>

\* C25: after a reset in Click or Type mode with a non-empty pool loaded a
\* prompt is eventually selected from the pool, unless the user switches
\* the mode or the dataset first: no switch is needed to go on playing.
C25_PromptAfterReset ==
    ResetInPlay ~> (prompt \in RandomOf(namesRef) \/ lastEvent = Switch)

\* After a reset the map has loaded again: Click mode, lives left, a pool,
\* and no prompt
C25_NoPromptAfterReset ==
    /\ mode = "click" /\ ~gameOver /\ lives = StartLives /\ LoadProcessed
    /\ namesRef = <<"Ontario", "Quebec">> /\ prompt = null /\ score = 0
    /\ message = "" /\ dataset = "canada" /\ lastLenRef = 2

\* C26: a life is lost, and the game ended, only while a prompt is set:
\* the countdown takes no life and ends no game in a state where the
\* prompt is none (empty pool, geometry still loading, just after a reset).
C26_LifeLostOnlyWithPrompt ==
    [][(lives' < lives \/ (gameOver' /\ ~gameOver)) => prompt # null]_vars

\* The countdown has taken all five lives of a game in which no geometry
\* ever gave a name, so no prompt was ever set
C26_GameLostWithoutPrompt ==
    /\ namesRef = <<>> /\ lastLenRef = 0 /\ prompt = null /\ score = 0
    /\ timerOn /\ lives = 0 /\ gameOver

\* C27: a countdown timeout (the tick that finds time-left at 1 or less)
\* changes lives, game-over and time-left only: score, streak, prompt,
\* input, message and the stored high scores stay as they are, and so does
\* the rest of the component's state.
C27_TimeoutFrame ==
    [][(Tick /\ timeLeft <= 1)
       => /\ UNCHANGED <<score, streak, prompt, input, message, localStorage>>
          /\ UNCHANGED <<highScore, dataset, mode, selectedName, info, timerOn,
                         duration, namesRef, lastLenRef>>]_vars

\* A game ended by the countdown with the streak of the last correct click
\* and its message still standing
C27_Witness ==
    /\ gameOver /\ lives = 0 /\ streak = 1 /\ score = 1 /\ mode = "click"
    /\ message = "Correct!" /\ prompt # null /\ timeLeft = duration

\* C28: in every state 1 <= time-left <= duration, whatever ticks,
\* duration changes, countdown toggles, answers, switches and resets came
\* before.  So duration - time-left counts the ticks since the counter was
\* last set to the duration, and a tick takes a life exactly when it is
\* the duration-th of them.
C28_TimeLeftInRange ==
    /\ [](1 <= timeLeft /\ timeLeft <= duration)
    /\ [][Tick
          => LET ticksBefore == duration - timeLeft
             IN  /\ lives' = lives - 1 <=> ticksBefore + 1 = duration
                 /\ lives' # lives - 1 => (lives' = lives /\ timeLeft' = timeLeft - 1)
                 /\ lives' = lives - 1 => timeLeft' = duration]_vars

\* The countdown at its last second, the duration changed and a life
\* already lost to it
C28_Witness ==
    /\ timerOn /\ intervals = 1 /\ duration = LongDuration /\ timeLeft = 1
    /\ lives = StartLives - 1 /\ score = 0 /\ message = ""

\* C29: in every state 0 <= streak <= score, whatever correct answers,
\* misses, timeouts, mode switches, dataset switches and resets came before.
C29_StreakWithinScore ==
    0 <= streak /\ streak <= score

\* A miss after a correct click: the streak is gone, the score stands
C29_Witness ==
    /\ score = 1 /\ streak = 0 /\ lives = StartLives - 1 /\ mode = "click"
    /\ message = "That was Quebec."

\* C30: a Type-mode miss leaves the prompt, and with it the highlighted
\* region, as it is; a Click-mode miss always replaces the prompt by a
\* pool name that differs from it.
C30_PromptAfterMiss ==
    /\ [][(lastEvent' = Submission /\ ~gameOver /\ prompt \notin {null, ""}
           /\ ~matchesAnswer(input, prompt))
          => (prompt' = prompt /\ lives' < lives)]_vars
    /\ [][\A i \in 1..Len(geographies) :
            (IsMiss(geographies[i]) /\ onGeoClick(geographies[i]))
            => /\ prompt' \in RandomOf(namesRef)
               /\ prompt' # prompt /\ norm(prompt') # norm(prompt)]_vars

\* A wrong answer typed for Ontario, which is still asked
C30_Witness ==
    /\ submitted /\ mode = "type" /\ message = "Not quite. Try again."
    /\ prompt = "Ontario" /\ lives = StartLives - 1 /\ input = ""

====
